---- MODULE Spec2Model ----
(***************************************************************************)
(* Grouped One Permutation Hashing (src/index.js): signature generation,   *)
(* bit-depth probe and downgrade, Jaccard similarity estimation.           *)
(*                                                                         *)
(* A 32-bit word is the pair <<hi, lo>> of its 16-bit halves, so that all  *)
(* of Math.imul, ^, >>>, << and + wrap modulo 2^32 as they do in the code. *)
(***************************************************************************)
EXTENDS Integers, Sequences, FiniteSets, TLC

\* ------------------------------------------------------------------------
\* Bounds of the inputs
\* ------------------------------------------------------------------------

\* element hashes are 1 .. MaxElem
MaxElem == 3

\* the iterable handed to the builder has at most MaxItems entries
MaxItems == 2

\* numHashes and numGroups go up to MaxHashes
MaxHashes == 4

\* a signature the caller makes itself has at most MaxLen slots
MaxLen == 2

\* the longest signature pair given to the estimator, the series of the unit
\* test apart
MaxSlots == 3

\* the largest low half of the words given to the dense hash alone
MaxLow == 7

\* the most trials the binomial CDF alone sums exactly
MaxTrials == 4

\* the most typed arrays allocated in a series of calls on shared arrays
MaxObjects == 2

\* ------------------------------------------------------------------------
\* 32-bit arithmetic of the JavaScript operators the hashes use
\* ------------------------------------------------------------------------

RECURSIVE Pow2(_)
Pow2(n) == IF n = 0 THEN 1 ELSE 2 * Pow2(n - 1)

H16 == Pow2(16)

RECURSIVE BitXor(_, _)
BitXor(a, b) ==
    IF a = 0 THEN b
    ELSE IF b = 0 THEN a
    ELSE ((a + b) % 2) + 2 * BitXor(a \div 2, b \div 2)

RECURSIVE BitAnd(_, _)
BitAnd(a, b) ==
    IF a = 0 \/ b = 0 THEN 0
    ELSE ((a % 2) * (b % 2)) + 2 * BitAnd(a \div 2, b \div 2)

RECURSIVE BitOr(_, _)
BitOr(a, b) ==
    IF a = 0 THEN b
    ELSE IF b = 0 THEN a
    ELSE (IF a % 2 = 1 \/ b % 2 = 1 THEN 1 ELSE 0) + 2 * BitOr(a \div 2, b \div 2)

\* the word of a small non-negative integer
Word(n) == <<n \div H16, n % H16>>

Zero32 == <<0, 0>>

\* x ^ y
Xor32(x, y) == <<BitXor(x[1], y[1]), BitXor(x[2], y[2])>>

\* x & y
And32(x, y) == <<BitAnd(x[1], y[1]), BitAnd(x[2], y[2])>>

\* x | y
Or32(x, y) == <<BitOr(x[1], y[1]), BitOr(x[2], y[2])>>

\* x >>> n, 0 <= n < 32
Shr32(x, n) ==
    IF n >= 16
    THEN <<0, x[1] \div Pow2(n - 16)>>
    ELSE <<x[1] \div Pow2(n),
           (x[1] % Pow2(n)) * Pow2(16 - n) + x[2] \div Pow2(n)>>

\* x << n, 0 <= n < 32
Shl32(x, n) ==
    IF n >= 16
    THEN <<(x[2] * Pow2(n - 16)) % H16, 0>>
    ELSE <<((x[1] % Pow2(16 - n)) * Pow2(n) + x[2] \div Pow2(16 - n)) % H16,
           ((x[2] % Pow2(16 - n)) * Pow2(n)) % H16>>

\* low and high half of the product of two 16-bit numbers
MulLo16(a, b) == (a * (b % 256) + ((a * (b \div 256)) % 256) * 256) % H16

MulHi16(a, b) ==
    (a * (b % 256) + ((a * (b \div 256)) % 256) * 256) \div H16
        + (a * (b \div 256)) \div 256

\* Math.imul(x, y), as an unsigned word
Imul32(x, y) ==
    <<(MulHi16(x[2], y[2]) + MulLo16(x[1], y[2]) + MulLo16(x[2], y[1])) % H16,
      MulLo16(x[2], y[2])>>

\* (x + y) modulo 2^32
Add32(x, y) ==
    <<(x[1] + y[1] + (x[2] + y[2]) \div H16) % H16, (x[2] + y[2]) % H16>>

\* x % m for an unsigned word x and a small positive integer m
Mod32(x, m) == ((x[1] % m) * (H16 % m) + (x[2] % m)) % m

\* unsigned x < y
Lt32(x, y) == x[1] < y[1] \/ (x[1] = y[1] /\ x[2] < y[2])

\* x < y for the int32 values (ToInt32) of two words
SignedLt32(x, y) ==
    LET sx == x[1] >= H16 \div 2
        sy == y[1] >= H16 \div 2
    IN  IF sx # sy THEN sx ELSE Lt32(x, y)


\* ------------------------------------------------------------------------
\* Hashes
\* ------------------------------------------------------------------------

\* h1 ^= len; h1 ^= h1 >>> 16; imul 0x85ebca6b; h1 ^= h1 >>> 13;
\* imul 0xc2b2ae35; h1 ^= h1 >>> 16; return h1 >>> 0
_murmurhash3_finalize(h1_orig, len) ==
    LET a == Xor32(h1_orig, Word(len))
        b == Xor32(a, Shr32(a, 16))
        c == Imul32(b, <<34283, 51819>>)
        d == Xor32(c, Shr32(c, 13))
        e == Imul32(d, <<49842, 44597>>)
    IN  Xor32(e, Shr32(e, 16))

\* MurmurHash3 of one 32-bit integer k1_orig under seed
murmurhash3_32_gc_single_int(k1_orig, seed) ==
    LET k1a == Imul32(k1_orig, <<52382, 11601>>)
        k1b == Or32(Shl32(k1a, 15), Shr32(k1a, 17))
        k1c == Imul32(k1b, <<7047, 13715>>)
        h1a == Xor32(seed, k1c)
        h1b == Or32(Shl32(h1a, 13), Shr32(h1a, 19))
        h1c == Add32(Imul32(h1b, Word(5)), <<58964, 27492>>)
    IN  _murmurhash3_finalize(h1c, 4)

\* the mask _computeDenseHash picks for a bit depth: 0xFF, 0x0F, 0x03, 0xFFFF,
\* and 0xFFFFFFFF for every other depth
DenseMask(bitDepth) ==
    IF bitDepth = 8 THEN <<0, 255>>
    ELSE IF bitDepth = 4 THEN <<0, 15>>
    ELSE IF bitDepth = 2 THEN <<0, 3>>
    ELSE IF bitDepth = 16 THEN <<0, 65535>>
    ELSE <<65535, 65535>>

\* fmix32 of baseHash, masked to the bit depth, 0 replaced by 1.  With the
\* mask 0xFFFFFFFF the JavaScript result is the int32 of the word; the word
\* kept here is its unsigned form, and the builder compares it as int32.
_computeDenseHash(baseHash, bitDepth) ==
    LET a == Xor32(baseHash, Shr32(baseHash, 16))
        b == Imul32(a, <<34283, 51819>>)
        c == Xor32(b, Shr32(b, 13))
        d == Imul32(c, <<49842, 44597>>)
        e == Xor32(d, Shr32(d, 16))
        h == And32(e, DenseMask(bitDepth))
    IN  IF h = Zero32 THEN Word(1) ELSE h


\* the number a word is after a bitwise operator: its int32 (ToInt32)
Int32(x) ==
    IF x[1] >= H16 \div 2 THEN (x[1] - H16) * H16 + x[2] ELSE x[1] * H16 + x[2]

\* the number _computeDenseHash returns: h after h &= mask
DenseHashNumber(baseHash, bitDepth) == Int32(_computeDenseHash(baseHash, bitDepth))

\* ------------------------------------------------------------------------
\* JavaScript values
\* ------------------------------------------------------------------------

\* A number is kept as the fraction num/den in lowest terms, den > 0.  The
\* numbers of the model are integers and fractions of small denominator, on
\* which the double arithmetic of the code is taken to be exact.
RECURSIVE Gcd(_, _)
Gcd(a, b) == IF b = 0 THEN a ELSE Gcd(b, a % b)

Abs(a) == IF a < 0 THEN -a ELSE a

Frac(a, b) ==
    LET d == Gcd(Abs(a), Abs(b))
        sign == IF b < 0 THEN -1 ELSE 1
    IN  [type |-> "number", num |-> sign * (a \div d), den |-> sign * (b \div d)]

Num(n) == [type |-> "number", num |-> n, den |-> 1]

Undefined == [type |-> "undefined", num |-> 0, den |-> 1]

Null == [type |-> "null", num |-> 0, den |-> 1]

Str == [type |-> "string", num |-> 0, den |-> 1]

\* typeof x === 'number'
IsNumber(x) == x.type = "number"

\* Number.isInteger(x)
NumberIsInteger(x) == x.type = "number" /\ x.den = 1

IntOf(x) == x.num

\* NaN is the number without a value: den = 0
NaN == [type |-> "number", num |-> 0, den |-> 0]

IsNaN(x) == x.den = 0

\* what arithmetic makes of an operand: undefined counts as NaN
ToNumber(x) == IF x.type = "number" THEN x ELSE NaN

\* x < y, x <= y of two numbers: false when either is NaN
NumLess(x, y) == ~IsNaN(x) /\ ~IsNaN(y) /\ x.num * y.den < y.num * x.den

NumLessEqual(x, y) == ~IsNaN(x) /\ ~IsNaN(y) /\ x.num * y.den <= y.num * x.den

\* x + y, x - y, x * y, x / y; the divisor of x / y is not 0 where the code
\* divides
NumAdd(x, y) ==
    IF IsNaN(x) \/ IsNaN(y) THEN NaN
    ELSE Frac(x.num * y.den + y.num * x.den, x.den * y.den)

NumSub(x, y) ==
    IF IsNaN(x) \/ IsNaN(y) THEN NaN
    ELSE Frac(x.num * y.den - y.num * x.den, x.den * y.den)

NumMul(x, y) ==
    IF IsNaN(x) \/ IsNaN(y) THEN NaN
    ELSE Frac(x.num * y.num, x.den * y.den)

NumDiv(x, y) ==
    IF IsNaN(x) \/ IsNaN(y) \/ y.num = 0 THEN NaN
    ELSE Frac(x.num * y.den, x.den * y.num)

\* Math.pow(x, n) for an integer n >= 0
RECURSIVE NumPow(_, _)
NumPow(x, n) == IF n = 0 THEN Num(1) ELSE NumMul(NumPow(x, n - 1), x)

\* Math.min(x, y) without NaN
NumMin(x, y) == IF NumLess(y, x) THEN y ELSE x

\* Math.floor(x - 1e-9) and Math.ceil(x - 1e-9): the denominators of the
\* model are far below 1e9, so x - 1e-9 is an integer for no x, lies just
\* below x when x is an integer and between the same integers as x otherwise
FloorMinusTiny(x) ==
    IF IsNaN(x) THEN NaN
    ELSE IF x.den = 1 THEN Num(x.num - 1) ELSE Num(x.num \div x.den)

CeilMinusTiny(x) ==
    IF IsNaN(x) THEN NaN
    ELSE IF x.den = 1 THEN x ELSE Num((x.num \div x.den) + 1)

\* a typed array or plain array; null is the container of type "null"
Container(type, data) == [type |-> type, data |-> data]

NullSignature == Container("null", <<>>)

\* how a call ends
Return(v) == [kind |-> "return", msg |-> "", val |-> v]

Throw(msg) == [kind |-> "throw", msg |-> msg, val |-> Null]

\* ------------------------------------------------------------------------
\* generateGroupedOPHSignature
\* ------------------------------------------------------------------------

\* the fill value of the working array at bit depth 32
Infinity == <<H16, 0>>

\* fillVal: 0xFF, 0x0F, 0x03, 0xFFFF, Infinity
FillVal(bitDepth) ==
    IF bitDepth = 8 THEN <<0, 255>>
    ELSE IF bitDepth = 4 THEN <<0, 15>>
    ELSE IF bitDepth = 2 THEN <<0, 3>>
    ELSE IF bitDepth = 16 THEN <<0, 65535>>
    ELSE Infinity

\* the constructor with depth 16 put into a Uint8Array as well
TypedArrayConstructorOfByte(bitDepth) ==
    IF bitDepth \in {8, 4, 2, 16} THEN "Uint8Array" ELSE "Uint32Array"

\* TypedArrayConstructor of the returned signature
TypedArrayConstructor(bitDepth) ==
    IF bitDepth \in {8, 4, 2} THEN "Uint8Array"
    ELSE IF bitDepth = 16 THEN "Uint16Array"
    ELSE "Uint32Array"

\* what a typed array keeps of a value stored into it
TypedStore(type, v) ==
    IF type = "Uint8Array" THEN And32(v, <<0, 255>>)
    ELSE IF type = "Uint16Array" THEN And32(v, <<0, 65535>>)
    ELSE v

\* the array the loop works on: the typed array, or at depth 32 a plain array
WorkingArray(bitDepth) ==
    IF bitDepth \in {8, 4, 2} THEN "Uint8Array"
    ELSE IF bitDepth = 16 THEN "Uint16Array"
    ELSE "Array"

\* the comparison taken as true whatever the slot holds
HashLessAlways(h, current) == TRUE

\* h < signature[signatureIndex]: a comparison of JavaScript numbers.  At
\* depth 32 h is an int32 and the array holds int32 values or Infinity; at
\* the other depths both are below 2^16.
HashLess(h, current) ==
    IF current = Infinity THEN TRUE ELSE SignedLt32(h, current)

\* baseHash and h of every element and seed the bounded inputs can ask for,
\* computed once
BaseHashTable ==
    [e \in 0..MaxElem |-> [i \in 0..(MaxHashes - 1) |->
        murmurhash3_32_gc_single_int(Word(e), Word(i))]]

DenseHashTable ==
    [e \in 0..MaxElem |-> [i \in 0..(MaxHashes - 1) |->
        [w \in {2, 4, 8, 16, 32} |-> _computeDenseHash(BaseHashTable[e][i], w)]]]

\* for (var i = 0; i < numGroups; i++) { ... } for one element: the signature
\* after the groups 0 .. n-1
RECURSIVE GroupLoop(_, _, _, _, _)
GroupLoop(signature, elementHash, n, M, bitDepth) ==
    IF n = 0 THEN signature
    ELSE LET before == GroupLoop(signature, elementHash, n - 1, M, bitDepth)
             i == n - 1
             baseHash == BaseHashTable[elementHash][i]
             j == Mod32(baseHash, M)
             h == DenseHashTable[elementHash][i][bitDepth]
             signatureIndex == i * M + j
         IN  IF HashLess(h, before[signatureIndex + 1])
             THEN [before EXCEPT ![signatureIndex + 1] =
                                     TypedStore(WorkingArray(bitDepth), h)]
             ELSE before

\* for (const elementHash of elementHashSet) { ... }: the signature after the
\* first n entries of the iteration
RECURSIVE ElementLoop(_, _, _, _, _, _)
ElementLoop(signature, elementHashSet, n, numGroups, M, bitDepth) ==
    IF n = 0 THEN signature
    ELSE LET before == ElementLoop(signature, elementHashSet, n - 1, numGroups, M,
                                   bitDepth)
         IN  IF ~IsNumber(elementHashSet[n])
             THEN before
             ELSE GroupLoop(before, IntOf(elementHashSet[n]), numGroups, M, bitDepth)

\* the last loop left out
ClearFillSkipped(signature, fillVal) == signature

\* if (signature[k] === fillVal) signature[k] = 0
ClearFill(signature, fillVal) ==
    [k \in 1..Len(signature) |->
        IF signature[k] = fillVal THEN Zero32 ELSE signature[k]]

\* the checks without the one of divisibility
GenerateArgumentErrorNoDivisor(numHashes, numGroups, bitDepth) ==
    IF ~IsNumber(numHashes) \/ NumLessEqual(numHashes, Num(0)) \/ ~NumberIsInteger(numHashes)
    THEN "numHashes must be a positive integer."
    ELSE IF ~IsNumber(numGroups) \/ NumLessEqual(numGroups, Num(0))
               \/ ~NumberIsInteger(numGroups)
    THEN "numGroups must be a positive integer."
    ELSE IF bitDepth \notin {Num(2), Num(4), Num(8), Num(16), Num(32)}
    THEN "bitDepth must be 2, 4, 8, 16, or 32."
    ELSE ""

\* the four argument checks; "" when none throws
GenerateArgumentError(numHashes, numGroups, bitDepth) ==
    IF ~IsNumber(numHashes) \/ NumLessEqual(numHashes, Num(0)) \/ ~NumberIsInteger(numHashes)
    THEN "numHashes must be a positive integer."
    ELSE IF ~IsNumber(numGroups) \/ NumLessEqual(numGroups, Num(0))
               \/ ~NumberIsInteger(numGroups)
    THEN "numGroups must be a positive integer."
    ELSE IF IntOf(numHashes) % IntOf(numGroups) # 0
    THEN "numHashes must be divisible by numGroups."
    ELSE IF bitDepth \notin {Num(2), Num(4), Num(8), Num(16), Num(32)}
    THEN "bitDepth must be 2, 4, 8, 16, or 32."
    ELSE ""

generateGroupedOPHSignature(elementHashSet, numHashes, numGroups, bitDepthArg) ==
    LET bitDepth == IF bitDepthArg = Undefined THEN Num(32) ELSE bitDepthArg
        error == GenerateArgumentError(numHashes, numGroups, bitDepth)
    IN  IF error # ""
        THEN Throw(error)
        ELSE LET M == IntOf(numHashes) \div IntOf(numGroups)
                 fillVal == FillVal(IntOf(bitDepth))
                 filled == [k \in 1..IntOf(numHashes) |-> fillVal]
                 scanned == ElementLoop(filled, elementHashSet, Len(elementHashSet),
                                        IntOf(numGroups), M, IntOf(bitDepth))
             IN  Return(Container(TypedArrayConstructor(IntOf(bitDepth)),
                                  ClearFill(scanned, fillVal)))

\* ------------------------------------------------------------------------
\* getBitDepth, downgradeSignature
\* ------------------------------------------------------------------------

getBitDepthOfTwoKinds(signature) ==
    IF signature.type = "Uint8Array" THEN Num(8)
    ELSE IF signature.type = "Uint32Array" THEN Num(32)
    ELSE Null

getBitDepth(signature) ==
    IF signature.type = "Uint8Array" THEN Num(8)
    ELSE IF signature.type = "Uint16Array" THEN Num(16)
    ELSE IF signature.type = "Uint32Array" THEN Num(32)
    ELSE Null

\* > in place of >=
JsGreater(x, y) == IsNumber(x) /\ IsNumber(y) /\ NumLess(y, x)

\* x >= y for numbers, undefined and null on the left (undefined is NaN there)
JsGreaterEqual(x, y) == IsNumber(x) /\ IsNumber(y) /\ NumLessEqual(y, x)

NewTypedArrayConstructor(targetBitDepth) ==
    IF targetBitDepth = 16 THEN "Uint16Array" ELSE "Uint8Array"

\* the masks with the one of target 16 keeping the high byte only
DowngradeMaskOfHighByte(targetBitDepth) ==
    IF targetBitDepth = 16 THEN <<0, 65280>>
    ELSE IF targetBitDepth = 8 THEN <<0, 255>>
    ELSE IF targetBitDepth = 4 THEN <<0, 15>>
    ELSE <<0, 3>>

\* 0xFFFF, 0xFF, 0x0F, and 0x03 for every other target
DowngradeMask(targetBitDepth) ==
    IF targetBitDepth = 16 THEN <<0, 65535>>
    ELSE IF targetBitDepth = 8 THEN <<0, 255>>
    ELSE IF targetBitDepth = 4 THEN <<0, 15>>
    ELSE <<0, 3>>

\* the loop body that leaves a masked value of 0 as it is
DowngradeSlotKeepsZero(originalValue, mask) ==
    IF originalValue = Zero32 THEN Zero32 ELSE And32(originalValue, mask)

\* the body of the loop for one slot
DowngradeSlot(originalValue, mask) ==
    IF originalValue = Zero32 THEN Zero32
    ELSE LET maskedValue == And32(originalValue, mask)
         IN  IF maskedValue = Zero32 THEN Word(1) ELSE maskedValue

downgradeSignature(signature, targetBitDepth) ==
    LET currentBitDepth == getBitDepth(signature)
    IN  IF currentBitDepth = Null
        THEN Throw("Invalid or unsupported signature type for downgrade.")
        ELSE IF JsGreaterEqual(targetBitDepth, currentBitDepth)
        THEN Throw("Target bit depth must be lower than current bit depth for downgrade.")
        ELSE IF targetBitDepth \notin {Num(2), Num(4), Num(8), Num(16)}
        THEN Throw("Target bit depth must be 2, 4, 8, or 16.")
        ELSE LET type == NewTypedArrayConstructor(IntOf(targetBitDepth))
                 mask == DowngradeMask(IntOf(targetBitDepth))
             IN  Return(Container(type,
                     [i \in 1..Len(signature.data) |->
                         TypedStore(type, DowngradeSlot(signature.data[i], mask))]))

\* ------------------------------------------------------------------------
\* estimateJaccardSimilarity
\* ------------------------------------------------------------------------

N_APPROX_THRESHOLD == 30

\* 1.000000001
OnePlusTiny == Frac(1000000001, 1000000000)

\* Math.max(a, b) without NaN
NumMax(a, b) == IF NumLess(a, b) THEN b ELSE a

\* the normal approximation with its last line returning normalCDF as it is
_normalApproxBinomialCDFUnclamped(k_to_sum, n_trials, p_success, normalCDF) ==
    IF NumLess(k_to_sum, Num(0)) THEN Num(0)
    ELSE IF NumLessEqual(n_trials, k_to_sum) THEN Num(1)
    ELSE IF p_success = Num(0) THEN Num(1)
    ELSE IF p_success = Num(1) THEN Num(0)
    ELSE IF NumMul(NumMul(n_trials, p_success), NumSub(Num(1), p_success)) = Num(0)
    THEN IF NumLessEqual(NumMul(n_trials, p_success), k_to_sum) THEN Num(1) ELSE Num(0)
    ELSE normalCDF

\* The normal approximation of the binomial CDF.  The square root, the
\* exponential and the error function lie outside the arithmetic of this
\* model: normalCDF stands for the number 0.5 * (1 + Math.erf(z / Math.sqrt(2)))
\* the code computes, a finite number since stdDev is not 0 there, and is
\* given by the caller.  stdDev === 0 is decided on its square n*p*(1-p).
_normalApproxBinomialCDF(k_to_sum, n_trials, p_success, normalCDF) ==
    IF NumLess(k_to_sum, Num(0)) THEN Num(0)
    ELSE IF NumLessEqual(n_trials, k_to_sum) THEN Num(1)
    ELSE IF p_success = Num(0) THEN Num(1)
    ELSE IF p_success = Num(1) THEN Num(0)
    ELSE IF NumMul(NumMul(n_trials, p_success), NumSub(Num(1), p_success)) = Num(0)
    THEN IF NumLessEqual(NumMul(n_trials, p_success), k_to_sum) THEN Num(1) ELSE Num(0)
    ELSE NumMax(Num(0), NumMin(normalCDF, Num(1)))

\* current_pmf_term and sum_prob after the iterations 1..i of the loop
RECURSIVE PmfLoop(_, _, _, _)
PmfLoop(i, k_to_sum, n_trials, p_success) ==
    IF i = 0
    THEN LET current_pmf_term == NumPow(NumSub(Num(1), p_success), IntOf(n_trials))
         IN  [current_pmf_term |-> current_pmf_term,
              sum_prob |-> IF NumLessEqual(Num(0), k_to_sum)
                           THEN current_pmf_term ELSE Num(0)]
    ELSE LET before == PmfLoop(i - 1, k_to_sum, n_trials, p_success)
         IN  IF before.current_pmf_term = Num(0) /\ NumLess(Num(0), p_success)
             THEN before
             ELSE LET factor == NumMul(NumDiv(Num(IntOf(n_trials) - i + 1), Num(i)),
                                       NumDiv(p_success, NumSub(Num(1), p_success)))
                      current_pmf_term == NumMul(before.current_pmf_term, factor)
                      sum_prob == NumAdd(before.sum_prob, current_pmf_term)
                  IN  [current_pmf_term |-> current_pmf_term,
                       sum_prob |-> IF NumLess(Num(1), sum_prob)
                                       /\ NumLess(sum_prob, OnePlusTiny)
                                    THEN Num(1) ELSE sum_prob]

_binomialCDFPositiveOnly(k_to_sum, n_trials, p_success, normalCDF) ==
    IF NumLessEqual(k_to_sum, Num(0)) THEN Num(0)
    ELSE IF NumLessEqual(n_trials, k_to_sum) THEN Num(1)
    ELSE IF p_success = Num(0) THEN Num(1)
    ELSE IF p_success = Num(1) THEN Num(0)
    ELSE NumMin(PmfLoop(IntOf(k_to_sum), k_to_sum, n_trials, p_success).sum_prob,
                Num(1))

\* P(X <= k_to_sum) for X ~ Bin(n_trials, p_success); k_to_sum is an integer
\* or NaN, n_trials a positive integer; normalCDF as in the approximation
_binomialCDF(k_to_sum, n_trials, p_success, normalCDF) ==
    IF NumLess(k_to_sum, Num(0)) THEN Num(0)
    ELSE IF NumLessEqual(n_trials, k_to_sum) THEN Num(1)
    ELSE IF p_success = Num(0) THEN Num(1)
    ELSE IF p_success = Num(1) THEN Num(0)
    ELSE LET np == NumMul(n_trials, p_success)
             nq == NumMul(n_trials, NumSub(Num(1), p_success))
         IN  IF /\ NumLess(Num(N_APPROX_THRESHOLD), n_trials)
                /\ NumLessEqual(Num(5), np)
                /\ NumLessEqual(Num(5), nq)
             THEN _normalApproxBinomialCDF(k_to_sum, n_trials, p_success, normalCDF)
             ELSE LET iterations == IF NumLessEqual(Num(1), k_to_sum)
                                    THEN IntOf(k_to_sum) ELSE 0
                  IN  NumMin(PmfLoop(iterations, k_to_sum, n_trials, p_success).sum_prob,
                             Num(1))

\* an options object; a property left out is undefined
Options(numGroups, similarityThreshold, errorTolerance, maxGroups) ==
    [type |-> "object", numGroups |-> numGroups,
     similarityThreshold |-> similarityThreshold,
     errorTolerance |-> errorTolerance, maxGroups |-> maxGroups]

EmptyOptions == Options(Undefined, Undefined, Undefined, Undefined)

SlotInUnionOfFirst(valA, valB) == valA # Zero32

\* valA !== 0 || valB !== 0
SlotInUnion(valA, valB) == valA # Zero32 \/ valB # Zero32

SlotMatchesEmptyToo(valA, valB) == valA = valB

\* valA === valB && valA !== 0
SlotMatches(valA, valB) == valA = valB /\ valA # Zero32

RECURSIVE SlotLoopMatchingEmpty(_, _, _, _)
SlotLoopMatchingEmpty(signatureA, signatureB, start, n) ==
    IF n = 0 THEN [unionCount |-> 0, matches |-> 0]
    ELSE LET before == SlotLoopMatchingEmpty(signatureA, signatureB, start, n - 1)
             valA == signatureA.data[start + n]
             valB == signatureB.data[start + n]
         IN  [unionCount |-> before.unionCount
                              + (IF SlotInUnion(valA, valB) THEN 1 ELSE 0),
              matches |-> before.matches + (IF valA = valB THEN 1 ELSE 0)]

\* the counters after the n slots from index start on
RECURSIVE SlotLoop(_, _, _, _)
SlotLoop(signatureA, signatureB, start, n) ==
    IF n = 0 THEN [unionCount |-> 0, matches |-> 0]
    ELSE LET before == SlotLoop(signatureA, signatureB, start, n - 1)
             valA == signatureA.data[start + n]
             valB == signatureB.data[start + n]
         IN  [unionCount |-> before.unionCount
                              + (IF SlotInUnion(valA, valB) THEN 1 ELSE 0),
              matches |-> before.matches
                           + (IF SlotMatches(valA, valB) THEN 1 ELSE 0)]

\* the message of the error the options raise, "" when they raise none
EstimateOptionsError(len, numGroups, similarityThreshold, errorTolerance, maxGroups) ==
    LET hasStatisticalEarlyTermination ==
            similarityThreshold # Undefined \/ errorTolerance # Undefined
        hasFastMode == maxGroups # Undefined
    IN  IF ~(hasStatisticalEarlyTermination \/ hasFastMode) THEN ""
        ELSE IF \/ ~IsNumber(numGroups)
                \/ NumLessEqual(numGroups, Num(0))
                \/ ~NumberIsInteger(numGroups)
                \/ len % IntOf(numGroups) # 0
        THEN "Invalid or missing 'numGroups' for optimized similarity estimation. It must be a positive integer and a divisor of signature length."
        ELSE IF /\ hasStatisticalEarlyTermination
                /\ \/ ~IsNumber(similarityThreshold)
                   \/ NumLess(similarityThreshold, Num(0))
                   \/ NumLess(Num(1), similarityThreshold)
        THEN "Invalid or missing 'similarityThreshold' for optimized similarity estimation. It must be a number between 0 and 1."
        ELSE IF /\ hasStatisticalEarlyTermination
                /\ \/ ~IsNumber(errorTolerance)
                   \/ NumLessEqual(errorTolerance, Num(0))
                   \/ NumLessEqual(Num(1), errorTolerance)
        THEN "Invalid or missing 'errorTolerance' for optimized similarity estimation. It must be a number > 0 and < 1."
        ELSE IF /\ hasFastMode
                /\ \/ ~IsNumber(maxGroups)
                   \/ NumLessEqual(maxGroups, Num(0))
                   \/ ~NumberIsInteger(maxGroups)
                   \/ NumLess(numGroups, maxGroups)
        THEN "Invalid 'maxGroups' for fast approximation. It must be a positive integer <= numGroups."
        ELSE ""

RatioOrZero(matches, unionCount) ==
    IF unionCount = 0 THEN Num(0) ELSE Frac(matches, unionCount)

\* unionCount === 0 ? 1.0 : matches / unionCount
RatioOrOne(matches, unionCount) ==
    IF unionCount = 0 THEN Num(1) ELSE Frac(matches, unionCount)

EffectiveNumGroupsAll(numGroups, maxGroups) == IntOf(numGroups)

\* the loop over one group whatever the options
EffectiveNumGroupsOne(numGroups, maxGroups) == 1

\* hasFastMode ? Math.min(maxGroups, numGroups) : numGroups
EffectiveNumGroups(numGroups, maxGroups) ==
    IF maxGroups # Undefined THEN IntOf(NumMin(maxGroups, numGroups))
    ELSE IntOf(numGroups)

ExtrapolatedEstimateOfAll(Mc, final_unionCount, processed_elements, n_total_hashes) ==
    Frac(Mc, n_total_hashes)

ExtrapolatedEstimateUnscaledUnion(Mc, final_unionCount, processed_elements, n_total_hashes) ==
    IF final_unionCount = 0 THEN Num(1)
    ELSE NumDiv(NumMul(Frac(Mc, processed_elements), Num(n_total_hashes)),
                Num(final_unionCount))

\* the estimate of the exit as confidently similar: the union and the matches
\* counted so far, each scaled to the whole length, and their ratio
ExtrapolatedEstimate(Mc, final_unionCount, processed_elements, n_total_hashes) ==
    LET union_ratio == Frac(final_unionCount, processed_elements)
        estimated_total_union == NumMul(union_ratio, Num(n_total_hashes))
        match_ratio == Frac(Mc, processed_elements)
        estimated_total_matches == NumMul(match_ratio, Num(n_total_hashes))
    IN  IF estimated_total_union = Num(0) THEN Num(1)
        ELSE NumDiv(estimated_total_matches, estimated_total_union)

\* normalCDF in the calls of the estimator: the approximation is entered only
\* for more than N_APPROX_THRESHOLD slots per group, which the signatures of
\* the model stay below; evaluation stops with an error should one get there
NormalCDFOfGroup(k_prime) ==
    CHOOSE normalCDF \in {} : k_prime > N_APPROX_THRESHOLD

\* The loop over the groups from group l_group_idx on, entered with the
\* counters Mc_in and union_in: the estimate it ends with, the way it ends
\* (exit), the number of groups counted and the counters at the end.
RECURSIVE GroupLoopEstimate(_, _, _, _, _, _)
GroupLoopEstimate(signatureA, signatureB, o, l_group_idx, Mc_in, union_in) ==
    LET k_prime == Len(signatureA.data) \div IntOf(o.numGroups)
        hasStatisticalEarlyTermination ==
            o.similarityThreshold # Undefined \/ o.errorTolerance # Undefined
        hasFastMode == o.maxGroups # Undefined
        T == ToNumber(o.similarityThreshold)
        epsilon == ToNumber(o.errorTolerance)
        Ma == NumMul(Num(k_prime), T)
        total_target_matches_overall == NumMul(o.numGroups, Ma)
        effectiveNumGroups == EffectiveNumGroups(o.numGroups, o.maxGroups)
        counted == SlotLoop(signatureA, signatureB, l_group_idx * k_prime, k_prime)
        Mc == Mc_in + counted.matches
        final_unionCount == union_in + counted.unionCount
        remaining_groups == effectiveNumGroups - (l_group_idx + 1)
        effective_target_matches ==
            IF hasFastMode THEN NumMul(Num(effectiveNumGroups), Ma)
            ELSE total_target_matches_overall
        Mra == NumDiv(NumSub(effective_target_matches, Num(Mc)), Num(remaining_groups))
        processed_elements == (l_group_idx + 1) * k_prime
        ends(exit, val) ==
            [val |-> val, exit |-> exit, groups |-> l_group_idx + 1,
             Mc |-> Mc, unionCount |-> final_unionCount]
        continue ==
            GroupLoopEstimate(signatureA, signatureB, o, l_group_idx + 1,
                              Mc, final_unionCount)
    IN  IF l_group_idx = effectiveNumGroups - 1
        THEN ends("end", RatioOrOne(Mc, final_unionCount))
        ELSE IF \/ ~hasStatisticalEarlyTermination
                \/ o.similarityThreshold = Undefined
                \/ o.errorTolerance = Undefined
        THEN continue
        ELSE IF NumLess(Mra, Ma)
        THEN IF NumLessEqual(_binomialCDF(FloorMinusTiny(Mra), Num(k_prime), T,
                                          NormalCDFOfGroup(k_prime)), epsilon)
             THEN ends("similar",
                       ExtrapolatedEstimate(Mc, final_unionCount, processed_elements,
                                            Len(signatureA.data)))
             ELSE continue
        ELSE LET ceiling_Mra == CeilMinusTiny(Mra)
                 prob_of_undesired_outcome ==
                     NumSub(Num(1), _binomialCDF(NumSub(ceiling_Mra, Num(1)),
                                                 Num(k_prime), T,
                                                 NormalCDFOfGroup(k_prime)))
             IN  IF NumLessEqual(prob_of_undesired_outcome, epsilon)
                 THEN ends("dissimilar", Num(0))
                 ELSE continue

SignaturesInvalidNullOnly(signatureA, signatureB) ==
    signatureA.type = "null" \/ signatureB.type = "null"

\* !signatureA || !signatureB || signatureA.length !== signatureB.length
SignaturesInvalid(signatureA, signatureB) ==
    \/ signatureA.type = "null"
    \/ signatureB.type = "null"
    \/ Len(signatureA.data) # Len(signatureB.data)

estimateJaccardSimilarity(signatureA, signatureB, options) ==
    IF SignaturesInvalid(signatureA, signatureB)
    THEN Throw("Signatures must be non-null and of equal length.")
    ELSE IF Len(signatureA.data) = 0 THEN Return(Num(1))
    ELSE LET currentOptions ==
                 IF options.type \in {"undefined", "null"} THEN EmptyOptions
                 ELSE options
             error == EstimateOptionsError(Len(signatureA.data),
                          currentOptions.numGroups, currentOptions.similarityThreshold,
                          currentOptions.errorTolerance, currentOptions.maxGroups)
             needsNumGroups ==
                 \/ currentOptions.similarityThreshold # Undefined
                 \/ currentOptions.errorTolerance # Undefined
                 \/ currentOptions.maxGroups # Undefined
         IN  IF error # "" THEN Throw(error)
             ELSE IF ~needsNumGroups
             THEN LET counted == SlotLoop(signatureA, signatureB, 0, Len(signatureA.data))
                  IN  Return(RatioOrOne(counted.matches, counted.unionCount))
             ELSE Return(GroupLoopEstimate(signatureA, signatureB, currentOptions,
                                           0, 0, 0).val)

\* ------------------------------------------------------------------------
\* The caller: one call after another, a returned signature going into the
\* next call
\* ------------------------------------------------------------------------

VARIABLES
    call,   \* the call made last: the operation and its arguments
    ret,    \* how it ended: the value returned or the error thrown
    prev,   \* the call before it and how that ended
    heap    \* the typed arrays the calls have allocated, in order

vars == <<call, ret, prev, heap>>

NoCall == [op |-> "none"]

NoRet == [kind |-> "none", msg |-> "", val |-> Null]

RECURSIVE SeqsUpTo(_, _)
SeqsUpTo(S, n) ==
    IF n = 0 THEN {<<>>}
    ELSE LET shorter == SeqsUpTo(S, n - 1)
         IN  shorter \cup {Append(q, x) : q \in {r \in shorter : Len(r) = n - 1}, x \in S}

\* the iterables of element hashes: numbers and an entry that is no number
ElementLists == SeqsUpTo({Num(e) : e \in 1..MaxElem} \cup {Str}, MaxItems)

HashCounts == {Num(n) : n \in 0..MaxHashes} \cup {Num(-1), Frac(3, 2), Str}

BitDepths == {Num(2), Num(4), Num(8), Num(16), Num(32), Num(7), Undefined, Str}

TargetBitDepths == {Num(2), Num(3), Num(4), Num(8), Num(15), Num(16), Num(32), Undefined}

\* signatures the caller makes itself: typed arrays of each kind, and what
\* is no signature: a signed typed array, a plain array, null
MadeSignatures ==
    {Container("Uint8Array", d) :
        d \in SeqsUpTo({Word(0), Word(1), Word(4), Word(16), Word(255)}, MaxLen)}
    \cup {Container("Uint16Array", d) :
        d \in SeqsUpTo({Word(0), Word(3), Word(256), Word(4096), Word(65535)}, MaxLen)}
    \cup {Container("Uint32Array", d) :
        d \in SeqsUpTo({Word(0), Word(5), Word(256), <<1, 0>>, <<65535, 65535>>}, MaxLen)}
    \cup {Container("Int16Array", <<Word(1)>>), Container("Array", <<Word(1)>>),
          NullSignature}

\* the signatures at hand: the one just returned, or at the start those the
\* caller makes
SignaturesAtHand ==
    IF call.op = "none" THEN MadeSignatures
    ELSE IF ret.kind = "return" /\ call.op \in {"generateGroupedOPHSignature", "downgradeSignature"}
    THEN {ret.val}
    ELSE {}

Init ==
    /\ call = NoCall
    /\ ret = NoRet
    /\ prev = [call |-> NoCall, ret |-> NoRet]
    /\ heap = <<>>

Generate ==
    /\ call.op = "none"
    /\ \E elements \in ElementLists, numHashes \in HashCounts,
          numGroups \in HashCounts, bitDepth \in BitDepths :
          /\ call' = [op |-> "generateGroupedOPHSignature",
                      elementHashSet |-> elements, numHashes |-> numHashes,
                      numGroups |-> numGroups, bitDepth |-> bitDepth]
          /\ ret' = generateGroupedOPHSignature(elements, numHashes, numGroups, bitDepth)
    /\ prev' = [call |-> call, ret |-> ret]
    /\ UNCHANGED heap

Downgrade ==
    /\ \E signature \in SignaturesAtHand, targetBitDepth \in TargetBitDepths :
          /\ call' = [op |-> "downgradeSignature", signature |-> signature,
                      targetBitDepth |-> targetBitDepth]
          /\ ret' = downgradeSignature(signature, targetBitDepth)
    /\ prev' = [call |-> call, ret |-> ret]
    /\ UNCHANGED heap

GetBitDepth ==
    /\ \E signature \in SignaturesAtHand :
          /\ call' = [op |-> "getBitDepth", signature |-> signature]
          /\ ret' = Return(getBitDepth(signature))
    /\ prev' = [call |-> call, ret |-> ret]
    /\ UNCHANGED heap

Next == Generate \/ Downgrade \/ GetBitDepth

Spec == Init /\ [][Next]_vars

\* ------------------------------------------------------------------------
\* The caller of the estimator: one call on two signatures and options
\* ------------------------------------------------------------------------

\* what one slot holds in the two signatures: empty in both, used in one,
\* equal, different
SlotPairs ==
    {<<Word(0), Word(0)>>, <<Word(0), Word(1)>>, <<Word(1), Word(0)>>,
     <<Word(1), Word(1)>>, <<Word(1), Word(2)>>}

Signature(values) == Container("Uint8Array", [i \in 1..Len(values) |-> Word(values[i])])

\* the pairs of the unit test
TestedPairs ==
    {<<Signature(<<10, 20, 30, 40>>), Signature(<<10, 20, 50, 60>>)>>,
     <<Signature(<<10, 0, 30, 0>>), Signature(<<10, 25, 0, 0>>)>>,
     <<Signature(<<0, 0, 0, 0>>), Signature(<<0, 0, 0, 0>>)>>,
     <<Signature(<<0, 0, 0, 0>>), Signature(<<1, 2, 0, 0>>)>>}

\* pairs that are no two signatures of one length
UnequalPairs ==
    {<<Signature(<<1, 2>>), Signature(<<1, 2, 3>>)>>,
     <<Signature(<<1, 2, 3>>), Signature(<<1, 2>>)>>,
     <<Signature(<<>>), Signature(<<1>>)>>,
     <<NullSignature, Signature(<<1, 2, 3>>)>>,
     <<Signature(<<1, 2, 3>>), NullSignature>>,
     <<NullSignature, NullSignature>>}

SignaturePairs ==
    {<<Container("Uint8Array", [i \in 1..Len(q) |-> q[i][1]]),
       Container("Uint8Array", [i \in 1..Len(q) |-> q[i][2]])>> :
        q \in SeqsUpTo(SlotPairs, MaxSlots)}
    \cup TestedPairs \cup UnequalPairs

GroupCounts == {Num(n) : n \in 0..MaxSlots} \cup {Undefined, Frac(3, 2)}

Thresholds == {Undefined, Num(0), Frac(1, 2), Num(1), Frac(3, 2), Frac(-1, 2), NaN}

Tolerances == {Undefined, Frac(1, 4), Frac(1, 2), Num(0), Num(1)}

GroupLimits == {Num(n) : n \in 0..MaxSlots} \cup {Undefined, Frac(3, 2), Str}

\* the options argument: left out, null, or an object
OptionValues ==
    {Undefined, Null}
    \cup {Options(numGroups, similarityThreshold, errorTolerance, maxGroups) :
            numGroups \in GroupCounts, similarityThreshold \in Thresholds,
            errorTolerance \in Tolerances, maxGroups \in GroupLimits}

Estimate ==
    /\ call.op = "none"
    /\ \E pair \in SignaturePairs, options \in OptionValues :
          /\ call' = [op |-> "estimateJaccardSimilarity", signatureA |-> pair[1],
                      signatureB |-> pair[2], options |-> options]
          /\ ret' = estimateJaccardSimilarity(pair[1], pair[2], options)
    /\ prev' = [call |-> call, ret |-> ret]
    /\ UNCHANGED heap

NextEstimate == Estimate

SpecEstimate == Init /\ [][NextEstimate]_vars

\* ------------------------------------------------------------------------
\* The caller with arrays of its own: the calls take and return references
\* to typed arrays, each call allocating the array it returns
\* ------------------------------------------------------------------------

Ref(id) == [type |-> "ref", id |-> id]

AllocateOverLast(objects, object) ==
    IF objects = <<>> THEN <<object>>
    ELSE [objects EXCEPT ![Len(objects)] = object]

\* new TypedArrayConstructor(...): a new array, the others as they are
Allocate(objects, object) == Append(objects, object)

HeapElementLists == {<<>>, <<Num(2), Num(1)>>}

HeapBitDepths == {Num(8), Num(32), Num(7)}

HeapTargetBitDepths == {Num(8), Num(16)}

HeapOptionValues == {Undefined, Options(Num(2), Frac(1, 2), Frac(1, 4), Undefined)}

\* what a call returning a new array leaves: the array allocated and a
\* reference to it returned, or the error and no array
Allocating(callMade, outcome) ==
    /\ call' = callMade
    /\ IF outcome.kind = "return"
       THEN /\ heap' = Allocate(heap, outcome.val)
            /\ ret' = Return(Ref(Len(heap')))
       ELSE /\ heap' = heap
            /\ ret' = outcome
    /\ prev' = [call |-> call, ret |-> ret]

HeapGenerate ==
    /\ Len(heap) < MaxObjects
    /\ \E elements \in HeapElementLists, bitDepth \in HeapBitDepths :
          Allocating([op |-> "generateGroupedOPHSignature", elementHashSet |-> elements,
                      numHashes |-> Num(2), numGroups |-> Num(1), bitDepth |-> bitDepth],
                     generateGroupedOPHSignature(elements, Num(2), Num(1), bitDepth))

HeapDowngrade ==
    /\ Len(heap) < MaxObjects
    /\ \E id \in 1..Len(heap), targetBitDepth \in HeapTargetBitDepths :
          Allocating([op |-> "downgradeSignature", signature |-> Ref(id),
                      targetBitDepth |-> targetBitDepth],
                     downgradeSignature(heap[id], targetBitDepth))

HeapGetBitDepth ==
    /\ \E id \in 1..Len(heap) :
          /\ call' = [op |-> "getBitDepth", signature |-> Ref(id)]
          /\ ret' = Return(getBitDepth(heap[id]))
    /\ prev' = [call |-> call, ret |-> ret]
    /\ UNCHANGED heap

HeapEstimate ==
    /\ \E idA \in 1..Len(heap), idB \in 1..Len(heap), options \in HeapOptionValues :
          /\ call' = [op |-> "estimateJaccardSimilarity", signatureA |-> Ref(idA),
                      signatureB |-> Ref(idB), options |-> options]
          /\ ret' = estimateJaccardSimilarity(heap[idA], heap[idB], options)
    /\ prev' = [call |-> call, ret |-> ret]
    /\ UNCHANGED heap

NextHeap == HeapGenerate \/ HeapDowngrade \/ HeapGetBitDepth \/ HeapEstimate

SpecHeap == Init /\ [][NextHeap]_vars

\* ------------------------------------------------------------------------
\* The dense hash alone: one call on a 32-bit word and a bit depth
\* ------------------------------------------------------------------------

HashInputs == {<<hi, lo>> : hi \in {0, H16 \div 2, H16 - 1}, lo \in 0..MaxLow}

DenseHash ==
    /\ call.op = "none"
    /\ \E baseHash \in HashInputs, bitDepth \in {2, 4, 8, 16, 32} :
          /\ call' = [op |-> "_computeDenseHash", baseHash |-> baseHash,
                      bitDepth |-> bitDepth]
          /\ ret' = Return(Num(DenseHashNumber(baseHash, bitDepth)))
    /\ prev' = [call |-> call, ret |-> ret]
    /\ UNCHANGED heap

NextHash == DenseHash

SpecHash == Init /\ [][NextHash]_vars

\* ------------------------------------------------------------------------
\* The binomial CDF alone: one call on k, n and p
\* ------------------------------------------------------------------------

\* n: few trials, summed exactly, and the first count above the threshold of
\* the approximation
TrialCounts == (1..MaxTrials) \cup {N_APPROX_THRESHOLD + 1}

SumLimits == (-2..(MaxTrials + 1)) \cup {15, N_APPROX_THRESHOLD, N_APPROX_THRESHOLD + 1}

Probabilities == {Num(0), Frac(1, 4), Frac(1, 2), Frac(3, 4), Num(1)}

\* what 0.5 * (1 + Math.erf(z / Math.sqrt(2))) may come to: numbers of the
\* unit interval, its ends, and numbers on either side of it
NormalCDFValues == {Frac(-1, 10), Num(0), Frac(1, 3), Num(1), Frac(11, 10)}

BinomialCDF ==
    /\ call.op = "none"
    /\ \E k_to_sum \in SumLimits, n_trials \in TrialCounts,
          p_success \in Probabilities, normalCDF \in NormalCDFValues :
          /\ call' = [op |-> "_binomialCDF", k_to_sum |-> k_to_sum,
                      n_trials |-> n_trials, p_success |-> p_success,
                      normalCDF |-> normalCDF]
          /\ ret' = Return(_binomialCDF(Num(k_to_sum), Num(n_trials), p_success,
                                        normalCDF))
    /\ prev' = [call |-> call, ret |-> ret]
    /\ UNCHANGED heap

NextCDF == BinomialCDF

SpecCDF == Init /\ [][NextCDF]_vars

\* ------------------------------------------------------------------------
\* Signature generation: C1, C3, C4, C5
\* ------------------------------------------------------------------------

GenerateReturned == call.op = "generateGroupedOPHSignature" /\ ret.kind = "return"

\* the bit depth of a generate call: 32 when the argument is left out
CallBitDepth == IF call.bitDepth = Undefined THEN Num(32) ELSE call.bitDepth

\* the slots (from 1) that some numeric entry of the iterable is mapped to:
\* l * k' + (F(e, l) mod k') over the groups l
MappedSlots(elements, N, g) ==
    {l * (N \div g)
        + Mod32(murmurhash3_32_gc_single_int(Word(IntOf(elements[n])), Word(l)), N \div g)
        + 1 :
        n \in {m \in 1..Len(elements) : IsNumber(elements[m])}, l \in 0..(g - 1)}

\* C1: at every bit depth a slot of the generated signature is 0 if and only
\* if no numeric element was mapped to that slot.
C1_ZeroIffNothingMapped ==
    GenerateReturned =>
        \A s \in 1..Len(ret.val.data) :
            (ret.val.data[s] = Zero32)
                <=> (s \notin MappedSlots(call.elementHashSet, IntOf(call.numHashes),
                                          IntOf(call.numGroups)))

\* v <= 2^w - 1
FitsWidth(v, w) ==
    IF w = 32 THEN v[1] \in 0..(H16 - 1) /\ v[2] \in 0..(H16 - 1)
    ELSE v[1] = 0 /\ v[2] \in 0..(Pow2(w) - 1)

\* C3: the generated signature has exactly numHashes slots, is a Uint8Array
\* at depths 2, 4 and 8, a Uint16Array at 16 and a Uint32Array at 32, and
\* every slot is between 0 and 2^w - 1.
C3_LengthArrayAndRange ==
    GenerateReturned =>
        /\ Len(ret.val.data) = IntOf(call.numHashes)
        /\ ret.val.type =
              (IF CallBitDepth \in {Num(2), Num(4), Num(8)} THEN "Uint8Array"
               ELSE IF CallBitDepth = Num(16) THEN "Uint16Array" ELSE "Uint32Array")
        /\ \A s \in 1..Len(ret.val.data) :
              FitsWidth(ret.val.data[s], IntOf(CallBitDepth))

\* a 4-bit signature of several slots with a slot above 3
C3_Witness ==
    /\ GenerateReturned
    /\ call.bitDepth = Num(4)
    /\ Len(ret.val.data) = MaxHashes
    /\ \E s \in 1..Len(ret.val.data) : ret.val.data[s][2] > 3

\* the arguments the builder accepts
ValidGenerateArguments ==
    /\ NumberIsInteger(call.numHashes) /\ IntOf(call.numHashes) >= 1
    /\ NumberIsInteger(call.numGroups) /\ IntOf(call.numGroups) >= 1
    /\ IntOf(call.numHashes) % IntOf(call.numGroups) = 0
    /\ CallBitDepth \in {Num(2), Num(4), Num(8), Num(16), Num(32)}

\* C4: the builder throws, returning nothing, exactly when numHashes is no
\* positive integer, numGroups is no positive integer, numGroups does not
\* divide numHashes or the bit depth is none of 2, 4, 8, 16, 32; with any
\* other arguments, an empty iterable included, it returns a signature.
C4_ThrowsIffInvalidArguments ==
    call.op = "generateGroupedOPHSignature" =>
        /\ ret.kind = (IF ValidGenerateArguments THEN "return" ELSE "throw")
        /\ ret.kind = "throw" => ret.val = Null

\* numGroups does not divide numHashes, both positive integers: thrown
C4_Witness ==
    /\ call.op = "generateGroupedOPHSignature"
    /\ call.numHashes = Num(3) /\ call.numGroups = Num(2)
    /\ call.bitDepth = Num(8)
    /\ ret.kind = "throw"

\* C5: of an empty iterable the builder returns numHashes slots, all 0, at
\* every bit depth.
C5_EmptySetAllZero ==
    (GenerateReturned /\ call.elementHashSet = <<>>) =>
        /\ Len(ret.val.data) = IntOf(call.numHashes)
        /\ \A s \in 1..Len(ret.val.data) : ret.val.data[s] = Zero32

C5_Witness ==
    /\ GenerateReturned
    /\ call.elementHashSet = <<>>
    /\ call.numHashes = Num(MaxHashes) /\ call.numGroups = Num(2)
    /\ call.bitDepth = Num(16)
    /\ ret.val.data = [s \in 1..MaxHashes |-> Zero32]

\* ------------------------------------------------------------------------
\* Downgrade: C8, C9, C10
\* ------------------------------------------------------------------------

DowngradeCalled == call.op = "downgradeSignature"

RecognizedSource == call.signature.type \in {"Uint8Array", "Uint16Array", "Uint32Array"}

\* the bits per element of the source's typed array
SourceArrayBits ==
    IF call.signature.type = "Uint8Array" THEN 8
    ELSE IF call.signature.type = "Uint16Array" THEN 16 ELSE 32

TargetIsWidth == call.targetBitDepth \in {Num(2), Num(4), Num(8), Num(16)}

\* v & (2^t - 1) for t <= 16, by division
LowBits(v, t) == <<0, v[2] % Pow2(t)>>

\* C8: of a Uint8Array, Uint16Array or Uint32Array and a target 2, 4, 8 or
\* 16 below the array's bits, the downgrade returns as many slots, in a
\* Uint16Array for 16 and a Uint8Array for 2, 4, 8; slot i is 0 if the
\* source slot is 0, else the source slot's low t bits, or 1 if those are 0.
\* So a slot is 0 exactly if the source slot is, and no slot exceeds 2^t - 1.
C8_DowngradeSlots ==
    (DowngradeCalled /\ RecognizedSource /\ TargetIsWidth
        /\ IntOf(call.targetBitDepth) < SourceArrayBits) =>
        LET t == IntOf(call.targetBitDepth)
            S == call.signature.data
        IN  /\ ret.kind = "return"
            /\ Len(ret.val.data) = Len(S)
            /\ ret.val.type = (IF t = 16 THEN "Uint16Array" ELSE "Uint8Array")
            /\ \A i \in 1..Len(S) :
                  /\ ret.val.data[i] =
                        (IF S[i] = Zero32 THEN Zero32
                         ELSE IF LowBits(S[i], t) # Zero32 THEN LowBits(S[i], t)
                         ELSE Word(1))
                  /\ (ret.val.data[i] = Zero32) <=> (S[i] = Zero32)
                  /\ FitsWidth(ret.val.data[i], t)

\* 65536 in a Uint32Array brought down to 16 bits becomes 1
C8_Witness ==
    /\ DowngradeCalled
    /\ call.signature.type = "Uint32Array"
    /\ call.targetBitDepth = Num(16)
    /\ ret.kind = "return"
    /\ \E i \in 1..Len(call.signature.data) :
          call.signature.data[i] = <<1, 0>> /\ ret.val.data[i] = Word(1)

\* the source of the downgrade was returned by the builder
SourceWasGenerated ==
    /\ prev.call.op = "generateGroupedOPHSignature"
    /\ prev.ret.kind = "return"
    /\ call.signature = prev.ret.val

\* the bit depth it was built with
SourceBuiltDepth ==
    IF prev.call.bitDepth = Undefined THEN Num(32) ELSE prev.call.bitDepth

\* C9: the downgrade throws, returning nothing, whenever the target is none
\* of 2, 4, 8, 16, or is not below the bit depth the source was built with
\* (2, 4, 8, 16 or 32), or the source is no unsigned typed array.
C9_DowngradeThrows ==
    DowngradeCalled =>
        ((\/ ~TargetIsWidth
          \/ ~RecognizedSource
          \/ (SourceWasGenerated
                /\ JsGreaterEqual(call.targetBitDepth, SourceBuiltDepth)))
            => (ret.kind = "throw" /\ ret.val = Null))

\* a downgrade of what a downgrade returned, to the same target
DowngradedTwice ==
    /\ DowngradeCalled
    /\ prev.call.op = "downgradeSignature"
    /\ prev.ret.kind = "return"
    /\ call.signature = prev.ret.val
    /\ call.targetBitDepth = prev.call.targetBitDepth

\* C10 as claimed: a downgrade to w of what a downgrade to w returned
\* returns as well, and returns the same slots.
C10_SecondDowngradeReturnsSame ==
    DowngradedTwice => (ret.kind = "return" /\ ret.val.data = prev.ret.val.data)

\* C10, amended: to 2 or 4 bits the second downgrade returns, with the same
\* slots in the same kind of array; to 8 or 16 bits it throws, the first
\* result being an array of just that many bits.
C10_SecondDowngrade ==
    DowngradedTwice =>
        IF call.targetBitDepth \in {Num(2), Num(4)}
        THEN ret = Return(prev.ret.val)
        ELSE /\ call.targetBitDepth \in {Num(8), Num(16)}
             /\ ret.kind = "throw"

\* a second downgrade to 4 bits that returns a signature with a slot in use
C10_Witness ==
    /\ DowngradedTwice
    /\ call.targetBitDepth = Num(4)
    /\ ret.kind = "return"
    /\ \E i \in 1..Len(ret.val.data) : ret.val.data[i] # Zero32

\* ------------------------------------------------------------------------
\* getBitDepth: C11
\* ------------------------------------------------------------------------

GetBitDepthCalled == call.op = "getBitDepth"

\* the signature asked about is the one the call before returned
AskedAboutGenerated ==
    /\ GetBitDepthCalled
    /\ prev.call.op = "generateGroupedOPHSignature"
    /\ prev.ret.kind = "return"
    /\ call.signature = prev.ret.val

AskedAboutDowngraded ==
    /\ GetBitDepthCalled
    /\ prev.call.op = "downgradeSignature"
    /\ prev.ret.kind = "return"
    /\ call.signature = prev.ret.val

\* the bits per element of the array that holds a signature of width w
ContainerBits(w) == IF w \in {Num(2), Num(4), Num(8)} THEN Num(8) ELSE w

\* C11 as stated: getBitDepth of a signature generated with bit depth w is
\* w, of a downgraded signature it is the target t, and of what is no
\* unsigned typed array it is null.
C11_ReportsDeclaredWidth ==
    /\ AskedAboutGenerated => ret = Return(SourceBuiltDepth)
    /\ AskedAboutDowngraded => ret = Return(prev.call.targetBitDepth)
    /\ (GetBitDepthCalled /\ ~RecognizedSource) => ret = Return(Null)

\* C11 amended: getBitDepth reports the bits per element of the array: 8 for
\* a signature generated with bit depth 2, 4 or 8, 16 and 32 for those of 16
\* and 32, likewise 8 after a downgrade to 2, 4 or 8 and 16 after one to 16;
\* null for what is no unsigned typed array.
C11_ReportsContainerWidth ==
    /\ AskedAboutGenerated => ret = Return(ContainerBits(SourceBuiltDepth))
    /\ AskedAboutDowngraded => ret = Return(ContainerBits(prev.call.targetBitDepth))
    /\ (GetBitDepthCalled /\ ~RecognizedSource) => ret = Return(Null)

\* asked about a signature generated with bit depth 4 that has a slot in use
C11_Witness ==
    /\ AskedAboutGenerated
    /\ SourceBuiltDepth = Num(4)
    /\ \E i \in 1..Len(call.signature.data) : call.signature.data[i] # Zero32
    /\ ret = Return(Num(8))

\* ------------------------------------------------------------------------
\* The estimator: C2, C6, C7, C12 to C20
\* ------------------------------------------------------------------------

EstimateCalled == call.op = "estimateJaccardSimilarity"

\* the call was made on two signatures, none null, of one length
OnEqualLengthSignatures ==
    /\ EstimateCalled
    /\ call.signatureA.type # "null"
    /\ call.signatureB.type # "null"
    /\ Len(call.signatureA.data) = Len(call.signatureB.data)

\* the slots in use in either signature, and those where both hold the same
\* value in use
UnionSlots(A, B) ==
    {i \in 1..Len(A.data) : A.data[i] # Zero32 \/ B.data[i] # Zero32}

MatchSlots(A, B) ==
    {i \in 1..Len(A.data) : A.data[i] = B.data[i] /\ A.data[i] # Zero32}

\* options left out or undefined, null, {}
IsSimpleOptions(options) ==
    options.type \in {"undefined", "null"} \/ options = EmptyOptions

C6_NullOrUnequalThrows ==
    (EstimateCalled /\ ~OnEqualLengthSignatures) =>
        /\ ret.kind = "throw"
        /\ ret.msg = "Signatures must be non-null and of equal length."
        /\ ~IsNumber(ret.val)

\* signatures of lengths 2 and 3 with options that are valid for length 2
C6_Witness ==
    /\ EstimateCalled
    /\ call.signatureA = Signature(<<1, 2>>)
    /\ call.signatureB = Signature(<<1, 2, 3>>)
    /\ call.options = Options(Num(2), Frac(1, 2), Frac(1, 4), Num(1))
    /\ ret.kind = "throw"

\* the options break a precondition of the optimized mode on length L
OptionsViolatePreconditions(L, options) ==
    /\ options.type = "object"
    /\ LET g == options.numGroups
           T == options.similarityThreshold
           epsilon == options.errorTolerance
           k_max == options.maxGroups
           groupsFit == NumberIsInteger(g) /\ g.num >= 1 /\ L % g.num = 0
       IN  \/ (T # Undefined \/ epsilon # Undefined \/ k_max # Undefined) /\ ~groupsFit
           \/ T # Undefined /\ epsilon = Undefined
           \/ epsilon # Undefined /\ T = Undefined
           \/ IsNumber(T) /\ (NumLess(T, Num(0)) \/ NumLess(Num(1), T))
           \/ IsNumber(epsilon)
              /\ (NumLessEqual(epsilon, Num(0)) \/ NumLessEqual(Num(1), epsilon))
           \/ k_max # Undefined
              /\ ~(NumberIsInteger(k_max) /\ k_max.num >= 1
                   /\ NumberIsInteger(g) /\ k_max.num <= g.num)

\* C7: on two non-null signatures of one length L, L = 0 included, the
\* estimator throws whenever the options break a precondition of the
\* optimized mode.
C7_InvalidOptionsThrow ==
    (OnEqualLengthSignatures
        /\ OptionsViolatePreconditions(Len(call.signatureA.data), call.options))
    => ret.kind = "throw"

\* the same on signatures with one slot at least
C7_InvalidOptionsThrowOnSlots ==
    (OnEqualLengthSignatures
        /\ Len(call.signatureA.data) > 0
        /\ OptionsViolatePreconditions(Len(call.signatureA.data), call.options))
    => ret.kind = "throw"

\* C12: without options, with options null or {}, the estimate of a
\* signature against itself is 1, whatever its length and its slots hold.
C12_SelfSimilarityIsOne ==
    (OnEqualLengthSignatures /\ call.signatureA = call.signatureB
        /\ IsSimpleOptions(call.options))
    => ret = Return(Num(1))

\* a signature with a used and an empty slot against itself
C12_Witness ==
    /\ EstimateCalled
    /\ call.signatureA = Signature(<<1, 0, 1>>)
    /\ call.signatureB = Signature(<<1, 0, 1>>)
    /\ call.options = Null
    /\ ret = Return(Num(1))

\* C13: the call with the two signatures exchanged ends the same way: the
\* same number, or an error both times, whatever the options are.
C13_Symmetric ==
    EstimateCalled =>
        LET exchanged == estimateJaccardSimilarity(call.signatureB, call.signatureA,
                                                   call.options)
        IN  /\ exchanged.kind = ret.kind
            /\ exchanged.val = ret.val

\* two signatures that differ, each with a slot the other leaves empty, in
\* the optimized mode with a limit on the groups
C13_Witness ==
    /\ EstimateCalled
    /\ call.signatureA = Signature(<<1, 1, 0>>)
    /\ call.signatureB = Signature(<<1, 0, 1>>)
    /\ call.options = Options(Num(3), Frac(1, 2), Frac(1, 4), Num(2))
    /\ ret.kind = "return"

\* the options are those of a mode: none, or an object that breaks no
\* precondition, its threshold and tolerance being values
OptionsValid(L, options) ==
    \/ IsSimpleOptions(options)
    \/ /\ options.type = "object"
       /\ ~OptionsViolatePreconditions(L, options)
       /\ ~IsNaN(options.similarityThreshold)
       /\ ~IsNaN(options.errorTolerance)

AllZero(signature) ==
    \A i \in 1..Len(signature.data) : signature.data[i] = Zero32

\* C14: on two signatures of one length L >= 1 whose slots are all 0 the
\* estimator returns 1 under every valid options value.
C14_AllZeroGivesOne ==
    (OnEqualLengthSignatures
        /\ Len(call.signatureA.data) >= 1
        /\ AllZero(call.signatureA) /\ AllZero(call.signatureB)
        /\ OptionsValid(Len(call.signatureA.data), call.options))
    => ret = Return(Num(1))

\* the same in the modes without threshold and tolerance
C14_AllZeroGivesOneWithoutThreshold ==
    (OnEqualLengthSignatures
        /\ Len(call.signatureA.data) >= 1
        /\ AllZero(call.signatureA) /\ AllZero(call.signatureB)
        /\ OptionsValid(Len(call.signatureA.data), call.options)
        /\ (call.options.type = "object" => call.options.similarityThreshold = Undefined))
    => ret = Return(Num(1))

\* the number of the first p slots in use in either signature, and of those
\* where both hold the same value in use
PrefixUnion(p) ==
    Cardinality({i \in 1..p : call.signatureA.data[i] # Zero32
                              \/ call.signatureB.data[i] # Zero32})

PrefixMatches(p) ==
    Cardinality({i \in 1..p : call.signatureA.data[i] = call.signatureB.data[i]
                              /\ call.signatureA.data[i] # Zero32})

\* the estimate is the number m/u, 1 when u = 0
ReturnsRatio(m, u) ==
    /\ ret.kind = "return"
    /\ IsNumber(ret.val) /\ ~IsNaN(ret.val)
    /\ IF u = 0 THEN ret.val = Num(1) ELSE ret.val.num * u = m * ret.val.den

\* the call is one of the optimized mode with threshold and tolerance: valid
\* options on signatures with a slot at least
WithThreshold ==
    /\ OnEqualLengthSignatures
    /\ Len(call.signatureA.data) >= 1
    /\ call.options.type = "object"
    /\ IsNumber(call.options.similarityThreshold)
    /\ IsNumber(call.options.errorTolerance)
    /\ OptionsValid(Len(call.signatureA.data), call.options)

\* the slots of a group, the groups gone through at most
SlotsPerGroup == Len(call.signatureA.data) \div call.options.numGroups.num

GroupsToScan ==
    IF call.options.maxGroups # Undefined THEN call.options.maxGroups.num
    ELSE call.options.numGroups.num

\* the binomial coefficient, P(X = i), P(X <= k) and P(X >= c) for
\* X ~ Binomial(n, p), from their definitions
RECURSIVE Binomial(_, _)
Binomial(n, i) ==
    IF i = 0 \/ i = n THEN 1 ELSE Binomial(n - 1, i - 1) + Binomial(n - 1, i)

ProbabilityOf(i, n, p) ==
    NumMul(Num(Binomial(n, i)),
           NumMul(NumPow(p, i), NumPow(NumSub(Num(1), p), n - i)))

RECURSIVE ProbabilityAtMost(_, _, _)
ProbabilityAtMost(k, n, p) ==
    IF k < 0 THEN Num(0)
    ELSE IF k >= n THEN Num(1)
    ELSE NumAdd(ProbabilityAtMost(k - 1, n, p), ProbabilityOf(k, n, p))

RECURSIVE ProbabilityAtLeast(_, _, _)
ProbabilityAtLeast(c, n, p) ==
    IF c > n THEN Num(0)
    ELSE IF c <= 0 THEN Num(1)
    ELSE NumAdd(ProbabilityAtLeast(c + 1, n, p), ProbabilityOf(c, n, p))

\* after group l (from 0), not the last: the matches still needed per
\* remaining group, Mra
RequiredAverage(l) ==
    LET T == call.options.similarityThreshold
        target == NumMul(Num(GroupsToScan * SlotsPerGroup), T)
    IN  NumDiv(NumSub(target, Num(PrefixMatches((l + 1) * SlotsPerGroup))),
               Num(GroupsToScan - (l + 1)))

\* the conditions of the two exits after group l
SimilarCondition(l) ==
    LET T == call.options.similarityThreshold
        Mra == RequiredAverage(l)
    IN  /\ NumLess(Mra, NumMul(Num(SlotsPerGroup), T))
        /\ NumLessEqual(ProbabilityAtMost(FloorMinusTiny(Mra).num, SlotsPerGroup, T),
                        call.options.errorTolerance)

DissimilarCondition(l) ==
    LET T == call.options.similarityThreshold
        Mra == RequiredAverage(l)
    IN  /\ NumLessEqual(NumMul(Num(SlotsPerGroup), T), Mra)
        /\ NumLessEqual(ProbabilityAtLeast(CeilMinusTiny(Mra).num, SlotsPerGroup, T),
                        call.options.errorTolerance)

\* the groups before the last after which a condition of exit holds
ExitGroups ==
    {l \in 0..(GroupsToScan - 2) : SimilarCondition(l) \/ DissimilarCondition(l)}

\* the first of them: the groups before it are gone through without exit
FirstExitGroup == CHOOSE l \in ExitGroups : \A m \in ExitGroups : l <= m

\* C15: with groups, threshold and tolerance and no limit on the groups,
\* when no condition of exit holds after any group before the last, the
\* estimate is the one of the simple mode on the same signatures: M/U over
\* all slots, 1 when U = 0.
C15_NoExitGivesSimpleEstimate ==
    (WithThreshold /\ call.options.maxGroups = Undefined /\ ExitGroups = {})
    => /\ ReturnsRatio(PrefixMatches(Len(call.signatureA.data)),
                       PrefixUnion(Len(call.signatureA.data)))
       /\ ret = estimateJaccardSimilarity(call.signatureA, call.signatureB, Undefined)

\* three groups of one slot gone through to the end, estimate 1/3
C15_Witness ==
    /\ WithThreshold
    /\ call.signatureA = Signature(<<1, 1, 0>>)
    /\ call.signatureB = Signature(<<1, 0, 1>>)
    /\ call.options = Options(Num(3), Frac(1, 2), Frac(1, 4), Undefined)
    /\ ExitGroups = {}
    /\ ret = Return(Frac(1, 3))

C17_SimilarExitGivesOne ==
    (WithThreshold /\ ExitGroups # {} /\ SimilarCondition(FirstExitGroup))
    => ret = Return(Num(1))

WithLimitOnly ==
    /\ OnEqualLengthSignatures
    /\ Len(call.signatureA.data) >= 1
    /\ call.options.type = "object"
    /\ call.options.similarityThreshold = Undefined
    /\ call.options.errorTolerance = Undefined
    /\ call.options.maxGroups # Undefined
    /\ OptionsValid(Len(call.signatureA.data), call.options)

\* C19: in the fast mode the estimate is the one of the simple mode on the
\* first k_max*k' slots: their M/U, 1 when none is in use; with k_max = g it
\* is the estimate of the simple mode on the whole signatures.
C19_FastModeIsPrefixEstimate ==
    WithLimitOnly =>
        LET p == GroupsToScan * SlotsPerGroup
        IN  /\ ReturnsRatio(PrefixMatches(p), PrefixUnion(p))
            /\ call.options.maxGroups = call.options.numGroups =>
                   ret = estimateJaccardSimilarity(call.signatureA, call.signatureB,
                                                   Undefined)

\* two of three groups: 1/2 on the first two slots, where all three give 1/3
C19_Witness ==
    /\ WithLimitOnly
    /\ call.signatureA = Signature(<<1, 1, 0>>)
    /\ call.signatureB = Signature(<<1, 0, 1>>)
    /\ call.options = Options(Num(3), Undefined, Undefined, Num(2))
    /\ ret = Return(Frac(1, 2))

\* C20: on two non-null signatures of one length and valid options the
\* estimator returns a number from 0 to 1.
C20_EstimateInUnitInterval ==
    (OnEqualLengthSignatures
        /\ OptionsValid(Len(call.signatureA.data), call.options))
    => /\ ret.kind = "return"
       /\ IsNumber(ret.val) /\ ~IsNaN(ret.val)
       /\ NumLessEqual(Num(0), ret.val)
       /\ NumLessEqual(ret.val, Num(1))

\* an exit as confidently similar with a limit on the groups and an estimate
\* inside the interval
C20_Witness ==
    /\ WithThreshold
    /\ call.signatureA = Signature(<<10, 0, 30, 0>>)
    /\ call.signatureB = Signature(<<10, 25, 0, 0>>)
    /\ call.options = Options(Num(2), Num(0), Frac(1, 2), Num(2))
    /\ SimilarCondition(0)
    /\ ret = Return(Frac(1, 2))

\* ------------------------------------------------------------------------
\* Calls on shared arrays: C21
\* ------------------------------------------------------------------------

\* a step leaves every array allocated before it as it is
ArraysKept ==
    \A id \in 1..Len(heap) : id <= Len(heap') /\ heap'[id] = heap[id]

\* a downgrade that returns, returns an array other than its source
DowngradeReturnsOtherArray ==
    (call.op = "downgradeSignature" /\ ret.kind = "return")
    => /\ ret.val.type = "ref"
       /\ ret.val.id \in 1..Len(heap)
       /\ ret.val.id # call.signature.id

\* what a call has returned, by value
ReturnedValue(r) ==
    IF r.kind = "return" /\ r.val.type = "ref" THEN Return(heap[r.val.id]) ELSE r

\* the call made again on the same arguments ends as it did the time before
RepeatedCallEndsTheSame ==
    (call.op # "none" /\ prev.call = call)
    => ReturnedValue(ret) = ReturnedValue(prev.ret)

Fmix32(x) ==
    LET a == Xor32(x, Shr32(x, 16))
        b == Imul32(a, <<34283, 51819>>)
        c == Xor32(b, Shr32(b, 13))
        d == Imul32(c, <<49842, 44597>>)
    IN  Xor32(d, Shr32(d, 16))

\* the low w bits of a word, as a word
LowBitsOfWord(x, w) ==
    IF w = 32 THEN x ELSE <<0, x[2] % Pow2(w)>>

DenseHashCalled == call.op = "_computeDenseHash"

\* the number returned is the unsigned value of the word x
IsUnsignedValueOf(n, x) ==
    /\ n >= 0
    /\ n \div H16 = x[1]
    /\ n % H16 = x[2]

\* C22: the dense hash of a 32-bit word at width w is an integer h with
\* 1 <= h <= 2^w - 1: fmix32 of the word, its low w bits, 0 replaced by 1.
C22_DenseHashInRange ==
    DenseHashCalled =>
        LET masked == LowBitsOfWord(Fmix32(call.baseHash), call.bitDepth)
            expected == IF masked = Zero32 THEN <<0, 1>> ELSE masked
        IN  /\ ret.val.num >= 1
            /\ call.bitDepth < 32 => ret.val.num <= Pow2(call.bitDepth) - 1
            /\ IsUnsignedValueOf(ret.val.num, expected)

\* the same at the widths below 32
C22_DenseHashInRangeBelow32 ==
    (DenseHashCalled /\ call.bitDepth < 32) =>
        LET masked == LowBitsOfWord(Fmix32(call.baseHash), call.bitDepth)
            expected == IF masked = Zero32 THEN <<0, 1>> ELSE masked
        IN  /\ ret.val.num >= 1
            /\ ret.val.num <= Pow2(call.bitDepth) - 1
            /\ IsUnsignedValueOf(ret.val.num, expected)

\* ------------------------------------------------------------------------
\* Slot values of the builder: C24
\* ------------------------------------------------------------------------

\* Secondary-Hash(x, w) of the specification, an unsigned w-bit word
SecondaryHash(x, w) ==
    LET masked == LowBitsOfWord(Fmix32(x), w)
    IN  IF masked = Zero32 THEN <<0, 1>> ELSE masked

\* F(e, l): the base hash of element e with seed l
F(e, l) == murmurhash3_32_gc_single_int(Word(e), Word(l))

\* the numeric values among the entries of an iterable
NumericValues(elements) ==
    {IntOf(elements[n]) : n \in {m \in 1..Len(elements) : IsNumber(elements[m])}}

\* the secondary hashes of the elements that group l maps to slot j of the group
LandedHashes(elements, l, j, kPrime, w) ==
    {SecondaryHash(F(e, l), w) : e \in {x \in NumericValues(elements) :
                                           Mod32(F(x, l), kPrime) = j}}

\* m is the smallest word of a set, the words read as unsigned integers
IsUnsignedMinimum(m, words) ==
    m \in words /\ \A x \in words : ~Lt32(x, m)

\* what C24 says of the slot s (from 0) of a generated signature
SlotIsUnsignedMinimum(s) ==
    LET kPrime == IntOf(call.numHashes) \div IntOf(call.numGroups)
    IN  ret.val.data[s + 1] # Zero32 =>
            IsUnsignedMinimum(ret.val.data[s + 1],
                              LandedHashes(call.elementHashSet, s \div kPrime,
                                           s % kPrime, kPrime, IntOf(CallBitDepth)))

\* C24: at every width every nonzero slot l*k' + j of the generated signature
\* is the smallest, as an unsigned integer, of the secondary hashes of the
\* numeric elements e with F(e, l) mod k' = j.
C24_NonzeroSlotIsUnsignedMinimum ==
    GenerateReturned =>
        \A s \in 0..(Len(ret.val.data) - 1) : SlotIsUnsignedMinimum(s)

\* the same at the widths below 32
C24_NonzeroSlotIsMinimumBelow32 ==
    (GenerateReturned /\ IntOf(CallBitDepth) < 32) =>
        \A s \in 0..(Len(ret.val.data) - 1) : SlotIsUnsignedMinimum(s)

\* ------------------------------------------------------------------------
\* The builder as a function of the set of numbers: C25
\* ------------------------------------------------------------------------

\* the iterables with the numeric values of the one given
SameNumbers(elements) ==
    {other \in ElementLists : NumericValues(other) = NumericValues(elements)}

\* C25: with numHashes, numGroups and bitDepth fixed, two iterables with the
\* same numeric values give the same signature slot for slot, whatever the
\* order, the repetitions and the entries that are no numbers, and these
\* entries are skipped without an error.
C25_DependsOnlyOnNumbers ==
    GenerateReturned =>
        \A other \in SameNumbers(call.elementHashSet) :
            generateGroupedOPHSignature(other, call.numHashes, call.numGroups,
                                        call.bitDepth) = ret

\* a signature of two numbers that share a slot, built from an iterable that
\* has a reordering, and one built from a number and an entry that is none
C25_Witness ==
    /\ GenerateReturned
    /\ \/ /\ call.elementHashSet = <<Num(1), Num(3)>>
          /\ call.numHashes = Num(2) /\ call.numGroups = Num(2)
          /\ ret.val.data[2] # Zero32
       \/ /\ call.elementHashSet = <<Str, Num(2)>>
          /\ ret.val.data[1] # Zero32

\* ------------------------------------------------------------------------
\* The last group of the optimized mode: C26
\* ------------------------------------------------------------------------

\* a call of the optimized mode: valid options with a threshold and a
\* tolerance, a limit on the groups, or both, on signatures with a slot
InOptimizedMode ==
    /\ OnEqualLengthSignatures
    /\ Len(call.signatureA.data) >= 1
    /\ call.options.type = "object"
    /\ \/ call.options.similarityThreshold # Undefined
       \/ call.options.errorTolerance # Undefined
       \/ call.options.maxGroups # Undefined
    /\ OptionsValid(Len(call.signatureA.data), call.options)

\* how the loop over the groups ended in the call
LoopEnd == GroupLoopEstimate(call.signatureA, call.signatureB, call.options, 0, 0, 0)

\* C26: in the optimized mode the groups are gone through from group 0 up,
\* at least one and at most G_eff of them; the loop stops before the last
\* group G_eff - 1 by an early exit only and takes none after that group,
\* after which the estimate is Mc/Uc of the
\* slots gone through (1 when Uc = 0); with G_eff = 1 the estimate is Mc/Uc
\* of the first k' slots under every threshold and tolerance.
C26_NoExitAfterLastGroup ==
    InOptimizedMode =>
        LET p == LoopEnd.groups * SlotsPerGroup
        IN  /\ LoopEnd.groups \in 1..GroupsToScan
            /\ LoopEnd.Mc = PrefixMatches(p)
            /\ LoopEnd.unionCount = PrefixUnion(p)
            /\ LoopEnd.exit # "end" <=> LoopEnd.groups < GroupsToScan
            /\ LoopEnd.groups = GroupsToScan =>
                   /\ LoopEnd.exit = "end"
                   /\ ReturnsRatio(PrefixMatches(p), PrefixUnion(p))
            /\ GroupsToScan = 1 =>
                   ReturnsRatio(PrefixMatches(SlotsPerGroup), PrefixUnion(SlotsPerGroup))

\* one group of two slots under threshold 1: 1 match on 2 slots in use is
\* returned as 1/2, where an exit test would have found the pair dissimilar;
\* and a call that goes through two groups or more to the last
C26_Witness ==
    /\ InOptimizedMode
    /\ \/ /\ WithThreshold
          /\ call.options.similarityThreshold = Num(1)
          /\ GroupsToScan = 1 /\ SlotsPerGroup = 2
          /\ ret = Return(Frac(1, 2))
       \/ /\ WithThreshold
          /\ GroupsToScan >= 2
          /\ LoopEnd.groups = GroupsToScan
          /\ ret = Return(Frac(1, 2))

\* ------------------------------------------------------------------------
\* The binomial CDF: C27
\* ------------------------------------------------------------------------

BinomialCDFCalled == call.op = "_binomialCDF"

\* the call went into the normal approximation and past its early returns
Approximated ==
    /\ BinomialCDFCalled
    /\ call.n_trials > N_APPROX_THRESHOLD
    /\ call.k_to_sum \in 0..(call.n_trials - 1)
    /\ call.p_success \notin {Num(0), Num(1)}

\* C27: for every integer k, every n >= 1 and every p in [0, 1] the binomial
\* CDF returns a number from 0 to 1 and throws nothing; it returns 0 for
\* k < 0, 1 for k >= n, 1 for p = 0 with k >= 0, 0 for p = 1 with 0 <= k < n.
C27_BinomialCDFInUnitInterval ==
    BinomialCDFCalled =>
        /\ ret.kind = "return"
        /\ IsNumber(ret.val) /\ ~IsNaN(ret.val)
        /\ NumLessEqual(Num(0), ret.val)
        /\ NumLessEqual(ret.val, Num(1))
        /\ call.k_to_sum < 0 => ret.val = Num(0)
        /\ call.k_to_sum >= call.n_trials => ret.val = Num(1)
        /\ (call.p_success = Num(0) /\ call.k_to_sum >= 0) => ret.val = Num(1)
        /\ (call.p_success = Num(1) /\ call.k_to_sum \in 0..(call.n_trials - 1))
               => ret.val = Num(0)

\* a sum of the exact branch (P(X <= 1) = 5/16 for 4 trials of 1/2), and an
\* approximation that came out above 1 and was returned as 1
C27_Witness ==
    \/ /\ BinomialCDFCalled
       /\ call.k_to_sum = 1 /\ call.n_trials = 4 /\ call.p_success = Frac(1, 2)
       /\ ret = Return(Frac(5, 16))
    \/ /\ Approximated
       /\ call.normalCDF = Frac(11, 10)
       /\ ret = Return(Num(1))

\* ------------------------------------------------------------------------
\* Downgrades one after the other: C29
\* ------------------------------------------------------------------------

\* a downgrade to b of what a downgrade to a returned, b below a
DowngradedFurther ==
    /\ DowngradeCalled
    /\ TargetIsWidth
    /\ prev.call.op = "downgradeSignature"
    /\ prev.ret.kind = "return"
    /\ call.signature = prev.ret.val
    /\ NumLess(call.targetBitDepth, prev.call.targetBitDepth)

\* C29: for a recognized signature S and targets b < a, the downgrade to b
\* of the downgrade of S to a returns, slot for slot, what the downgrade of S
\* to b returns: 0 for a slot 0 of S, else the slot's low b bits, or 1 if
\* those are 0.
C29_DowngradesCompose ==
    DowngradedFurther =>
        LET S == prev.call.signature
            b == IntOf(call.targetBitDepth)
        IN  /\ ret.kind = "return"
            /\ ret = downgradeSignature(S, call.targetBitDepth)
            /\ Len(ret.val.data) = Len(S.data)
            /\ \A i \in 1..Len(S.data) :
                  ret.val.data[i] =
                      (IF S.data[i] = Zero32 THEN Zero32
                       ELSE IF LowBits(S.data[i], b) # Zero32 THEN LowBits(S.data[i], b)
                       ELSE Word(1))

\* a 32-bit signature taken to 16 and then to 8 bits, with a slot whose low
\* 16 bits are not 0 and whose low 8 bits are: 256 becomes 256 and then 1
C29_Witness ==
    /\ DowngradedFurther
    /\ prev.call.signature.type = "Uint32Array"
    /\ prev.call.targetBitDepth = Num(16)
    /\ call.targetBitDepth = Num(8)
    /\ \E i \in 1..Len(ret.val.data) :
          /\ prev.call.signature.data[i] = Word(256)
          /\ prev.ret.val.data[i] = Word(256)
          /\ ret.val.data[i] = Word(1)

\* ------------------------------------------------------------------------
\* Signatures of a union: C30
\* ------------------------------------------------------------------------

\* merge of two slot values: the one in use, or of two in use the one that is
\* first by <, the smaller number
merge(x, y) ==
    IF x = Zero32 THEN y
    ELSE IF y = Zero32 THEN x
    ELSE IF Lt32(x, y) THEN x ELSE y

\* merge with the two values in use compared as the int32 they are inside
\* the builder at width 32
mergeAsInt32(x, y) ==
    IF x = Zero32 THEN y
    ELSE IF y = Zero32 THEN x
    ELSE IF SignedLt32(x, y) THEN x ELSE y

\* the pairs of iterables whose numbers together are those of the one given
SplitsOf(elements) ==
    {pair \in ElementLists \X ElementLists :
        NumericValues(pair[1]) \cup NumericValues(pair[2]) = NumericValues(elements)}

\* the signature returned is, slot for slot, Merge of those of A and of B
MergesTo(A, B, Merge(_, _)) ==
    LET ofA == generateGroupedOPHSignature(A, call.numHashes, call.numGroups,
                                           call.bitDepth)
        ofB == generateGroupedOPHSignature(B, call.numHashes, call.numGroups,
                                           call.bitDepth)
    IN  /\ ofA.kind = "return" /\ ofB.kind = "return"
        /\ \A s \in 1..Len(ret.val.data) :
              ret.val.data[s] = Merge(ofA.val.data[s], ofB.val.data[s])

\* C30: for all numHashes, numGroups and bitDepth, every slot of the
\* signature of A \cup B is merge of the same slot of the signatures of A and
\* of B, where merge(0, x) = merge(x, 0) = x and merge of two values in use is
\* the one the comparison < puts first, the minimum.
C30_Mergeable ==
    GenerateReturned =>
        \A pair \in SplitsOf(call.elementHashSet) : MergesTo(pair[1], pair[2], merge)

\* the same at the widths below 32
C30_MergeableBelow32 ==
    (GenerateReturned /\ IntOf(CallBitDepth) < 32) =>
        \A pair \in SplitsOf(call.elementHashSet) : MergesTo(pair[1], pair[2], merge)

\* at width 32 the slots merge in the order of int32
C30_MergeableAsInt32 ==
    (GenerateReturned /\ IntOf(CallBitDepth) = 32) =>
        \A pair \in SplitsOf(call.elementHashSet) :
            MergesTo(pair[1], pair[2], mergeAsInt32)

====
